---- MODULE Spec2Model ----
(***************************************************************************)
(* A model of the knowledge-graph construction pipeline of research_graph: *)
(*   - normalize_key, the name normalizer             (main.py 35-42)      *)
(*   - GraphDatabase.get_or_create_node / create_edge (main.py 45-97)      *)
(*     over the schema created by reset_database      (reset_db.py 24-46)  *)
(*   - process_pdf, text cleanup and truncation       (main.py 141-177)    *)
(*   - main, the per-document driver                  (main.py 180-248)    *)
(*                                                                         *)
(* Specifications:                                                         *)
(*   SpecNorm   normalize_key applied to bounded strings                   *)
(*   SpecTrunc  process_pdf applied to bounded run-length encoded texts,   *)
(*              and the text extract_graph puts into its prompt            *)
(*   SpecStore  one database client calling the store operations           *)
(*   SpecRace   two database clients running the store operations          *)
(*              statement by statement (autocommit, main.py 48)            *)
(*   Spec       one pipeline process (main) over a bounded corpus          *)
(*   SpecReset  the pipeline with reset_database run beside it             *)
(*   SpecCorpus the pipeline over a corpus with files PdfReader cannot     *)
(*              open; FairCorpus adds weak fairness of the process         *)
(*   SpecRerun  main run again over one corpus, after a complete run and   *)
(*              after a run that was stopped                               *)
(***************************************************************************)
EXTENDS Integers, Sequences, FiniteSets, Bags, TLC

VARIABLES
    pc,             \* control point of the sequential program of the specification
    \* ---- normalize_key ---------------------------------------------------
    text,           \* the argument of normalize_key
    variant,        \* a second argument, a case/separator variant of text
    key,            \* normalize_key(text)
    variant_key,    \* normalize_key(variant)
    rekey,          \* normalize_key(key)
    \* ---- process_pdf -----------------------------------------------------
    full_text,      \* the text read from the pages (main.py 143-153)
    cleaned,        \* full_text after cleanup (main.py 156-159)
    raw_text,       \* what process_pdf returns (main.py 204)
    prompt_text,    \* the text extract_graph puts into its prompt (main.py 114)
    \* ---- the database ----------------------------------------------------
    nodes,          \* rows of table nodes (reset_db.py 25-32)
    edges,          \* rows of table edges (reset_db.py 37-45), a bag: the id of
                    \* an edge is never read, so its rows are kept without it
    node_ids,       \* how many node ids uuid_generate_v4() has handed out
    edge_ids,       \* how many rows have been inserted into edges
    \* ---- one client calling the store operations -------------------------
    prev_call,      \* the call before the last one: arguments and result
    last_call,      \* the last call: arguments and result
    calls,          \* calls made
    \* ---- two clients, statement by statement -----------------------------
    wpc,            \* per writer: "idle", "insert_node", "insert_edge", "raised"
    wargs,          \* per writer: the arguments of the call in progress
    wret,           \* per writer: what its last finished call returned
    wcalls,         \* per writer: calls started
    \* ---- main, the pipeline driver --------------------------------------
    n_docs,         \* len(pdf_files) (main.py 192)
    doc,            \* documents the for loop has taken up (main.py 199)
    invoked,        \* whether agent.extract_graph was called for this document
    outcome,        \* how the last document taken up has gone so far
    graph_nodes,    \* graph_data.nodes (main.py 211)
    node_i,         \* iterations of the node loop done (main.py 219)
    n_edges,        \* len(graph_data.edges)
    edge_i,         \* iterations of the edge loop done (main.py 230)
    node_map,       \* normalized name -> node id (main.py 218)
    skipped_edges,  \* main.py 229, 241
    dropped,        \* edges iterated that name no candidate node of the document
    passed,         \* edges iterated that were given to db.create_edge
    doc_writes,     \* rows inserted for this document
    resets,         \* runs of reset_database beside the pipeline
    \* ---- the pipeline run again over one corpus --------------------------
    corpus,         \* per document: the text read and what extract_graph gives
    phase,          \* which run of main this is
    first_run,      \* the tables when the first run completed
    stopped_at      \* where the run that was stopped stood

normVars == <<text, variant, key, variant_key, rekey>>
pdfVars == <<full_text, cleaned, raw_text, prompt_text>>
dbVars == <<nodes, edges, node_ids, edge_ids>>
clientVars == <<prev_call, last_call, calls>>
raceVars == <<wpc, wargs, wret, wcalls>>
loopVars == <<graph_nodes, node_i, n_edges, edge_i, node_map, skipped_edges,
              dropped, passed>>
rerunVars == <<corpus, phase, first_run, stopped_at>>
pipeVars == <<n_docs, doc, invoked, outcome, loopVars, doc_writes, resets, rerunVars>>

vars == <<pc, normVars, pdfVars, dbVars, clientVars, raceVars, pipeVars>>

\* ------------------------------------------------------------------------
\* Bounds of the model
\* ------------------------------------------------------------------------
MaxLen == 3         \* longest string given to normalize_key
MaxRuns == 3        \* most runs of one character in a text given to process_pdf
MaxCalls == 3       \* store operations the single client calls
MaxRaceCalls == 2   \* store operations each of the two writers calls
MaxDocs == 2        \* most documents in the corpus
MaxNodes == 2       \* most candidate nodes the extraction returns for a document
MaxEdges == 2       \* most candidate edges the extraction returns for a document
MaxResets == 1      \* runs of reset_database beside the pipeline

\* ------------------------------------------------------------------------
\* Python str, as a sequence of characters; None is a value of its own
\* ------------------------------------------------------------------------
Letters == {"a", "A"}
Separators == {"-", "_", " "}
Whitespace == {" ", "\t", "\n"}
Alphabet == Letters \cup Separators

NoneText == [null |-> TRUE, s |-> <<>>]
Str(s) == [null |-> FALSE, s |-> s]

StringsUpTo(n) == UNION {[1..k -> Alphabet] : k \in 0..n}

\* str.lower() on one character
LowerChar(c) == IF c = "A" THEN "a" ELSE c

\* str.lower()
lower(s) == [i \in 1..Len(s) |-> LowerChar(s[i])]

\* str.strip(): leading and trailing whitespace removed
RECURSIVE lstrip(_)
lstrip(s) == IF s # <<>> /\ Head(s) \in Whitespace THEN lstrip(Tail(s)) ELSE s

RECURSIVE rstrip(_)
rstrip(s) ==
    IF s # <<>> /\ s[Len(s)] \in Whitespace THEN rstrip(SubSeq(s, 1, Len(s) - 1)) ELSE s

strip(s) == rstrip(lstrip(s))

\* str.replace(old, new) for a one-character old and a one-character new
replace(s, old, new) == [i \in 1..Len(s) |-> IF s[i] = old THEN new ELSE s[i]]

\* normalize_key without the second replace: underscores are kept
normalize_key_keeps_underscore(t) ==
    IF t.null \/ t.s = <<>> THEN <<>>
    ELSE replace(strip(lower(t.s)), "-", " ")

\* normalize_key(text): "" for None or "", else lower, strip, "-" and "_" to " "
normalize_key(t) ==
    IF t.null \/ t.s = <<>> THEN <<>>
    ELSE replace(replace(strip(lower(t.s)), "-", " "), "_", " ")

\* ------------------------------------------------------------------------
\* Document text: a Python str of up to 10^5 characters, kept as a sequence
\* of runs [c |-> character, n |-> number of repetitions], no run empty and
\* no two neighbouring runs of the same character, so that two texts are
\* equal exactly when their run sequences are.
\* ------------------------------------------------------------------------
MinUsable == 500        \* main.py 161
limit == 40000          \* main.py 169
HeadLen == 35000        \* main.py 174
TailLen == 5000         \* main.py 175

Run(c, n) == [c |-> c, n |-> n]

RECURSIVE Canon(_)
Canon(t) ==
    IF t = <<>> THEN <<>>
    ELSE IF t[1].n = 0 THEN Canon(Tail(t))
    ELSE LET r == Canon(Tail(t)) IN
         IF r # <<>> /\ r[1].c = t[1].c
         THEN <<Run(t[1].c, t[1].n + r[1].n)>> \o Tail(r)
         ELSE <<t[1]>> \o r

\* len(text)
RECURSIVE len(_)
len(t) == IF t = <<>> THEN 0 ELSE t[1].n + len(Tail(t))

\* a + b
concat(a, b) == Canon(a \o b)

\* text.replace(old, new), new one character or "" (the empty sequence)
replace_text(t, old, new) ==
    Canon([i \in 1..Len(t) |->
             IF t[i].c # old THEN t[i]
             ELSE IF new = <<>> THEN Run(old, 0)
             ELSE Run(new[1], t[i].n)])

\* text.strip()
RECURSIVE lstrip_text(_)
lstrip_text(t) ==
    IF t # <<>> /\ t[1].c \in Whitespace THEN lstrip_text(Tail(t)) ELSE t

RECURSIVE rstrip_text(_)
rstrip_text(t) ==
    IF t # <<>> /\ t[Len(t)].c \in Whitespace
    THEN rstrip_text(SubSeq(t, 1, Len(t) - 1)) ELSE t

strip_text(t) == rstrip_text(lstrip_text(t))

\* text[:k] for k >= 0
RECURSIVE slice_to(_, _)
slice_to(t, k) ==
    IF t = <<>> \/ k <= 0 THEN <<>>
    ELSE IF t[1].n >= k THEN <<Run(t[1].c, k)>>
    ELSE <<t[1]>> \o slice_to(Tail(t), k - t[1].n)

\* text[k:] for k >= 0
RECURSIVE slice_from(_, _)
slice_from(t, k) ==
    IF t = <<>> THEN <<>>
    ELSE IF k <= 0 THEN t
    ELSE IF t[1].n > k THEN <<Run(t[1].c, t[1].n - k)>> \o Tail(t)
    ELSE slice_from(Tail(t), k - t[1].n)

\* text[-k:] for k > 0: the whole text when it is shorter than k
slice_last(t, k) == slice_from(t, IF len(t) > k THEN len(t) - k ELSE 0)

\* "\n\n...[SECTION SKIPPED FOR TOKEN LIMIT]...\n\n" (main.py 177); the
\* bracketed words are one block of 33 characters.
Marker ==
    <<Run("\n", 2), Run(".", 3), Run("[SECTION SKIPPED FOR TOKEN LIMIT]", 33),
      Run(".", 3), Run("\n", 2)>>

\* main.py 156-159: null bytes removed, tabs to spaces, stripped
cleanup(t) == strip_text(replace_text(replace_text(t, "NUL", <<>>), "\t", <<" ">>))

\* main.py 169-177 with the tail slice written [-4999:]
truncate_short_tail(t) ==
    IF len(t) <= limit THEN t
    ELSE concat(concat(slice_to(t, HeadLen), Marker), slice_last(t, TailLen - 1))

\* main.py 169-177: the text itself up to limit, else head, marker, tail
truncate(t) ==
    IF len(t) <= limit THEN t
    ELSE concat(concat(slice_to(t, HeadLen), Marker), slice_last(t, TailLen))

\* main.py 161 with the length taken before the cleanup
is_usable_uncleaned(t) == ~(len(t) < MinUsable)

\* main.py 161: the test that lets a document through, on the text read
is_usable(t) == ~(len(cleanup(t)) < MinUsable)

\* process_pdf from line 155 on: "" for a text too short, else truncate
process_pdf(t) == IF ~is_usable(t) THEN <<>> ELSE truncate(cleanup(t))

\* {text[:40000]} in the prompt of extract_graph (main.py 114)
PromptLen == 40000
excerpt(t) == slice_to(t, PromptLen)

\* ------------------------------------------------------------------------
\* The database: tables nodes and edges as reset_database creates them, and
\* the statements GraphDatabase runs on them. The connection is in autocommit
\* mode (main.py 48): every statement is a transaction of its own.
\* ------------------------------------------------------------------------
None == 0       \* Python None: no row fetched, no entry in node_map

NodeIdsOf(ns) == {r.id : r \in ns}

\* SELECT id FROM nodes WHERE lower(name) = lower(%s) AND type = %s
select_node_ignoring_case(ns, name, type) ==
    LET hit == {r \in ns : lower(r.name) = lower(name) /\ r.type = type} IN
    IF hit = {} THEN None ELSE (CHOOSE r \in hit : TRUE).id

\* SELECT id FROM nodes WHERE name = %s AND type = %s; fetchone()
select_node(ns, name, type) ==
    LET hit == {r \in ns : r.name = name /\ r.type = type} IN
    IF hit = {} THEN None ELSE (CHOOSE r \in hit : TRUE).id

\* table nodes without the constraint: every row is accepted
no_unique_node_name_type(ns, name, type) == TRUE

\* CONSTRAINT unique_node_name_type UNIQUE (name, type): may the row go in?
unique_node_name_type(ns, name, type) ==
    \A r \in ns : ~(r.name = name /\ r.type = type)

\* INSERT INTO nodes (name, type, properties) VALUES (...) RETURNING id
insert_node(ns, id, node, paper_source) ==
    ns \cup {[id |-> id, name |-> node.name, type |-> node.type,
              description |-> node.description, source_paper |-> paper_source]}

\* the SELECT of create_edge with the type compared to the context
select_edge_by_context(es, source_id, target_id, edge) ==
    \E r \in BagToSet(es) : /\ r.source_id = source_id
                            /\ r.target_id = target_id
                            /\ r.type = edge.context

\* SELECT id FROM edges WHERE source_id = %s AND target_id = %s AND type = %s:
\* whether fetchone() returns a row
select_edge(es, source_id, target_id, edge) ==
    \E r \in BagToSet(es) : /\ r.source_id = source_id
                            /\ r.target_id = target_id
                            /\ r.type = edge.relation

\* table edges without REFERENCES: every row is accepted
no_references_nodes(ns, source_id, target_id) == TRUE

\* source_id, target_id UUID NOT NULL REFERENCES nodes(id): may the row go in?
references_nodes(ns, source_id, target_id) ==
    /\ source_id \in NodeIdsOf(ns)
    /\ target_id \in NodeIdsOf(ns)

\* INSERT INTO edges (source_id, target_id, type, citation_context)
insert_edge(es, source_id, target_id, edge) ==
    es (+) SetToBag({[source_id |-> source_id, target_id |-> target_id,
                      type |-> edge.relation, citation_context |-> edge.context]})

\* get_or_create_node writing its description and paper into the row it found
get_or_create_node_updating(ns, ids, node, paper_source) ==
    LET result == select_node(ns, node.name, node.type) IN
    IF result # None
    THEN [nodes |-> {IF r.id = result
                     THEN [r EXCEPT !.description = node.description,
                                    !.source_paper = paper_source]
                     ELSE r : r \in ns},
          node_ids |-> ids, id |-> result, existed |-> TRUE, raised |-> FALSE]
    ELSE [nodes |-> insert_node(ns, ids + 1, node, paper_source),
          node_ids |-> ids + 1, id |-> ids + 1,
          existed |-> FALSE, raised |-> FALSE]

\* GraphDatabase.get_or_create_node run by one client with no other client
\* between its statements: the tables after it, the id returned, and whether
\* the INSERT raised.
get_or_create_node(ns, ids, node, paper_source) ==
    LET result == select_node(ns, node.name, node.type) IN
    IF result # None
    THEN [nodes |-> ns, node_ids |-> ids, id |-> result,
          existed |-> TRUE, raised |-> FALSE]
    ELSE IF unique_node_name_type(ns, node.name, node.type)
    THEN [nodes |-> insert_node(ns, ids + 1, node, paper_source),
          node_ids |-> ids + 1, id |-> ids + 1,
          existed |-> FALSE, raised |-> FALSE]
    ELSE [nodes |-> ns, node_ids |-> ids, id |-> None,
          existed |-> FALSE, raised |-> TRUE]

\* create_edge without the SELECT before its INSERT
create_edge_always_insert(ns, es, ids, source_id, target_id, edge) ==
    IF references_nodes(ns, source_id, target_id)
    THEN [edges |-> insert_edge(es, source_id, target_id, edge),
          edge_ids |-> ids + 1, existed |-> FALSE, raised |-> FALSE]
    ELSE [edges |-> es, edge_ids |-> ids, existed |-> FALSE, raised |-> TRUE]

\* GraphDatabase.create_edge run by one client with no other client between
\* its statements.
create_edge(ns, es, ids, source_id, target_id, edge) ==
    IF select_edge(es, source_id, target_id, edge)
    THEN [edges |-> es, edge_ids |-> ids, existed |-> TRUE, raised |-> FALSE]
    ELSE IF references_nodes(ns, source_id, target_id)
    THEN [edges |-> insert_edge(es, source_id, target_id, edge),
          edge_ids |-> ids + 1, existed |-> FALSE, raised |-> FALSE]
    ELSE [edges |-> es, edge_ids |-> ids, existed |-> FALSE, raised |-> TRUE]

\* Rows of nodes with one (name, type); number of rows of edges with one
\* (source_id, target_id, type).
NodesWith(ns, name, type) == {r \in ns : r.name = name /\ r.type = type}
EdgesWith(es, source_id, target_id, relation) ==
    LET hit == {r \in BagToSet(es) : /\ r.source_id = source_id
                                     /\ r.target_id = target_id
                                     /\ r.type = relation} IN
    BagCardinality([r \in hit |-> es[r]])

\* ------------------------------------------------------------------------
\* The parts of the state a specification does not use
\* ------------------------------------------------------------------------
Writers == {1, 2}
NoCall == [op |-> "none"]

NormIdle ==
    /\ text = NoneText
    /\ variant = NoneText
    /\ key = <<>>
    /\ variant_key = <<>>
    /\ rekey = <<>>

PdfIdle ==
    /\ full_text = <<>>
    /\ cleaned = <<>>
    /\ raw_text = <<>>
    /\ prompt_text = <<>>

\* the tables right after reset_database
DbIdle ==
    /\ nodes = {}
    /\ edges = EmptyBag
    /\ node_ids = 0
    /\ edge_ids = 0

ClientIdle ==
    /\ prev_call = NoCall
    /\ last_call = NoCall
    /\ calls = 0

RaceIdle ==
    /\ wpc = [w \in Writers |-> "idle"]
    /\ wargs = [w \in Writers |-> NoCall]
    /\ wret = [w \in Writers |-> None]
    /\ wcalls = [w \in Writers |-> 0]

RerunIdle ==
    /\ corpus = <<>>
    /\ phase = "single"
    /\ first_run = [nodes |-> {}, edges |-> EmptyBag]
    /\ stopped_at = [pc |-> "none", doc |-> 0, doc_writes |-> 0]

PipeIdle ==
    /\ RerunIdle
    /\ n_docs = 0
    /\ doc = 0
    /\ invoked = FALSE
    /\ outcome = "none"
    /\ graph_nodes = <<>>
    /\ node_i = 0
    /\ n_edges = 0
    /\ edge_i = 0
    /\ node_map = <<>>
    /\ skipped_edges = 0
    /\ dropped = 0
    /\ passed = 0
    /\ doc_writes = 0
    /\ resets = 0

\* ------------------------------------------------------------------------
\* SpecNorm: normalize_key on every string up to MaxLen, and on its variants
\* ------------------------------------------------------------------------
\* A separator position of s: a separator with a name character somewhere
\* before it and somewhere after it.
IsSeparatorPosition(s, i) ==
    /\ s[i] \in Separators
    /\ \E j \in 1..(i - 1) : s[j] \notin Separators
    /\ \E j \in (i + 1)..Len(s) : s[j] \notin Separators

\* The characters that may stand at position i of a variant of s.
VariantChars(s, i) ==
    IF s[i] \in Letters THEN {c \in Letters : LowerChar(c) = LowerChar(s[i])}
    ELSE IF IsSeparatorPosition(s, i) THEN Separators
    ELSE {s[i]}

InitNorm ==
    /\ pc = "norm_input"
    /\ text \in {NoneText} \cup {Str(s) : s \in StringsUpTo(MaxLen)}
    /\ variant = text
    /\ key = <<>>
    /\ variant_key = <<>>
    /\ rekey = <<>>
    /\ PdfIdle
    /\ DbIdle
    /\ ClientIdle
    /\ RaceIdle
    /\ PipeIdle

\* Change the letter case or the separator at one position of the variant.
Vary ==
    /\ pc = "norm_input"
    /\ ~variant.null
    /\ \E i \in 1..Len(variant.s) :
         \E c \in VariantChars(text.s, i) \ {variant.s[i]} :
            variant' = Str([variant.s EXCEPT ![i] = c])
    /\ UNCHANGED <<pc, text, key, variant_key, rekey, pdfVars, dbVars, clientVars, raceVars, pipeVars>>

\* Call normalize_key on text, on the variant, and on the key of text.
Normalize ==
    /\ pc = "norm_input"
    /\ key' = normalize_key(text)
    /\ variant_key' = normalize_key(variant)
    /\ rekey' = normalize_key(Str(normalize_key(text)))
    /\ pc' = "norm_done"
    /\ UNCHANGED <<text, variant, pdfVars, dbVars, clientVars, raceVars, pipeVars>>

NextNorm == Vary \/ Normalize

SpecNorm == InitNorm /\ [][NextNorm]_vars

\* C7: normalize_key is idempotent: normalizing a key again gives the key.
C7_Idempotent == pc = "norm_done" => rekey = key

\* C8: names that differ only in letter case and in the separator used at
\* separator positions have the same key; None and "" have the key "".
C8_CaseSeparatorInsensitive ==
    pc = "norm_done" =>
        /\ variant_key = key
        /\ (text.null \/ text.s = <<>>) => key = <<>>

\* A name and a variant of it that differs in case and in a separator.
C8_Witness ==
    /\ pc = "norm_done"
    /\ text = Str(<<"A", "-", "a">>)
    /\ variant = Str(<<"a", "_", "a">>)
    /\ key = <<"a", " ", "a">>

\* ------------------------------------------------------------------------
\* SpecTrunc: process_pdf on every text of up to MaxRuns runs
\* ------------------------------------------------------------------------
TextChars == {"x", "y", "\t", "NUL"}
RunLens == {1, 499, 5000, 35000}

TextsUpTo(n) ==
    UNION {{Canon([i \in 1..k |-> Run(f[i][1], f[i][2])]) :
              f \in [1..k -> TextChars \X RunLens]} : k \in 0..n}

InitTrunc ==
    /\ pc = "pdf_read"
    /\ full_text \in TextsUpTo(MaxRuns)
    /\ cleaned = <<>>
    /\ raw_text = <<>>
    /\ prompt_text = <<>>
    /\ NormIdle
    /\ DbIdle
    /\ ClientIdle
    /\ RaceIdle
    /\ PipeIdle

\* process_pdf from the text read to its return value
ProcessPdf ==
    /\ pc = "pdf_read"
    /\ cleaned' = cleanup(full_text)
    /\ raw_text' = process_pdf(full_text)
    /\ pc' = "pdf_returned"
    /\ UNCHANGED <<normVars, full_text, prompt_text, dbVars, clientVars, raceVars, pipeVars>>

\* main.py 205-211, 106-114: the text is not empty, extract_graph is called
\* with it and builds its prompt
BuildPrompt ==
    /\ pc = "pdf_returned"
    /\ raw_text # <<>>
    /\ prompt_text' = excerpt(raw_text)
    /\ pc' = "prompt_built"
    /\ UNCHANGED <<normVars, full_text, cleaned, raw_text, dbVars, clientVars, raceVars,
                   pipeVars>>

NextTrunc == ProcessPdf \/ BuildPrompt

SpecTrunc == InitTrunc /\ [][NextTrunc]_vars

\* C9: where truncation is reached (a cleaned text of at least the minimum
\* usable length), a text of at most 40,000 characters is returned unchanged,
\* and a longer one as its first 35,000 characters, the marker, and its last
\* 5,000 characters, of length at most 40,000 + the marker's length.
C9_Truncation ==
    pc = "pdf_returned" /\ len(cleaned) >= 500 =>
        /\ len(cleaned) <= 40000 => raw_text = cleaned
        /\ len(cleaned) > 40000 =>
             /\ slice_to(raw_text, 35000) = slice_to(cleaned, 35000)
             /\ slice_to(slice_from(raw_text, 35000), len(Marker)) = Marker
             /\ slice_from(raw_text, 35000 + len(Marker)) = slice_last(cleaned, 5000)
             /\ len(slice_last(cleaned, 5000)) = 5000
             /\ len(raw_text) = 35000 + len(Marker) + 5000
             /\ len(raw_text) <= 40000 + len(Marker)

\* A text of 75,000 characters after cleanup, cut to head, marker and tail.
C9_Witness ==
    /\ pc = "pdf_returned"
    /\ cleaned = <<Run("x", 35000), Run("y", 35000), Run("x", 5000)>>
    /\ raw_text = <<Run("x", 35000)>> \o Marker \o <<Run("x", 5000)>>

\* ------------------------------------------------------------------------
\* SpecStore: one client calls get_or_create_node and create_edge, each call
\* run to its end before the next
\* ------------------------------------------------------------------------
ClientNames == {<<"a">>, <<"A">>}
NodeTypes == {"Method", "Concept"}
Descriptions == {"d1", "d2"}
Papers == {"p1", "p2"}
Relations == {"USES", "IMPROVES_ON"}
Contexts == {"c1", "c2"}

ClientNodes == [name : ClientNames, type : NodeTypes, description : Descriptions]
ClientEdges == [relation : Relations, context : Contexts]

InitStore ==
    /\ pc = "client"
    /\ NormIdle
    /\ PdfIdle
    /\ DbIdle
    /\ ClientIdle
    /\ RaceIdle
    /\ PipeIdle

\* db.get_or_create_node(node, paper_source)
ClientGetOrCreateNode ==
    /\ pc = "client"
    /\ calls < MaxCalls
    /\ \E node \in ClientNodes, paper_source \in Papers :
         LET r == get_or_create_node(nodes, node_ids, node, paper_source) IN
         /\ nodes' = r.nodes
         /\ node_ids' = r.node_ids
         /\ last_call' = [op |-> "node", name |-> node.name, type |-> node.type,
                          description |-> node.description,
                          paper_source |-> paper_source,
                          ret |-> r.id, existed |-> r.existed, raised |-> r.raised]
    /\ prev_call' = last_call
    /\ calls' = calls + 1
    /\ UNCHANGED <<pc, normVars, pdfVars, edges, edge_ids, raceVars, pipeVars>>

\* db.create_edge(source_id, target_id, edge), the ids those of stored nodes
ClientCreateEdge ==
    /\ pc = "client"
    /\ calls < MaxCalls
    /\ \E source_id \in NodeIdsOf(nodes), target_id \in NodeIdsOf(nodes),
          edge \in ClientEdges :
         LET r == create_edge(nodes, edges, edge_ids, source_id, target_id, edge) IN
         /\ edges' = r.edges
         /\ edge_ids' = r.edge_ids
         /\ last_call' = [op |-> "edge", source_id |-> source_id,
                          target_id |-> target_id, relation |-> edge.relation,
                          context |-> edge.context,
                          existed |-> r.existed, raised |-> r.raised]
    /\ prev_call' = last_call
    /\ calls' = calls + 1
    /\ UNCHANGED <<pc, normVars, pdfVars, nodes, node_ids, raceVars, pipeVars>>

NextStore == ClientGetOrCreateNode \/ ClientCreateEdge

SpecStore == InitStore /\ [][NextStore]_vars

\* C1: two successive get_or_create_node calls with the same (name, type)
\* return the same identifier, neither raising, and the store then holds
\* exactly one node with that (name, type).
C1_SameIdOneNode ==
    (/\ prev_call.op = "node"
     /\ last_call.op = "node"
     /\ prev_call.name = last_call.name
     /\ prev_call.type = last_call.type)
    => /\ ~prev_call.raised
       /\ ~last_call.raised
       /\ last_call.ret # None
       /\ last_call.ret = prev_call.ret
       /\ Cardinality(NodesWith(nodes, last_call.name, last_call.type)) = 1

\* The first of the two calls inserted the node, the second found it, with
\* another node of the same name in the store.
C1_Witness ==
    /\ prev_call.op = "node"
    /\ last_call.op = "node"
    /\ prev_call.name = last_call.name
    /\ prev_call.type = last_call.type
    /\ ~prev_call.existed
    /\ last_call.existed
    /\ Cardinality(nodes) = 2

\* C2: the store holds at most one edge for each (source_id, target_id,
\* relation type), and a create_edge call with a stored triple inserts
\* nothing: every INSERT ever run added a triple the store did not hold, and
\* after a call the triple it was given is stored exactly once.
C2_OneEdgePerTriple ==
    /\ \A e \in BagToSet(edges) : EdgesWith(edges, e.source_id, e.target_id, e.type) = 1
    /\ edge_ids = BagCardinality(edges)
    /\ last_call.op = "edge" =>
         EdgesWith(edges, last_call.source_id, last_call.target_id,
                   last_call.relation) = 1

\* create_edge called twice with one triple: the second call found the edge.
C2_Witness ==
    /\ last_call.op = "edge"
    /\ prev_call.op = "edge"
    /\ prev_call.source_id = last_call.source_id
    /\ prev_call.target_id = last_call.target_id
    /\ prev_call.relation = last_call.relation
    /\ ~prev_call.existed
    /\ last_call.existed
    /\ BagCardinality(edges) = 1

\* ------------------------------------------------------------------------
\* SpecRace: two clients (two pipeline processes on one database) run
\* get_or_create_node and create_edge; each SELECT and each INSERT is one
\* step, and the other client may run between the two.
\* ------------------------------------------------------------------------
RaceNodes == [name : ClientNames, type : {"Method"}, description : {"d1"}]
RaceEdges == [relation : {"USES"}, context : {"c1"}]

\* paper_title of the document the writer is processing
WriterPaper(w) == IF w = 1 THEN "p1" ELSE "p2"

InitRace ==
    /\ pc = "race"
    /\ NormIdle
    /\ PdfIdle
    /\ DbIdle
    /\ ClientIdle
    /\ RaceIdle
    /\ PipeIdle

\* get_or_create_node up to fetchone(): return the id found, or go on to INSERT
WriterSelectNode(w) ==
    /\ wpc[w] = "idle"
    /\ wcalls[w] < MaxRaceCalls
    /\ \E node \in RaceNodes :
         LET result == select_node(nodes, node.name, node.type) IN
         /\ wargs' = [wargs EXCEPT ![w] = [op |-> "node", node |-> node]]
         /\ IF result # None
            THEN /\ wret' = [wret EXCEPT ![w] = result]
                 /\ wpc' = wpc
            ELSE /\ wret' = [wret EXCEPT ![w] = None]
                 /\ wpc' = [wpc EXCEPT ![w] = "insert_node"]
    /\ wcalls' = [wcalls EXCEPT ![w] = @ + 1]
    /\ UNCHANGED <<pc, normVars, pdfVars, dbVars, clientVars, pipeVars>>

\* get_or_create_node from the INSERT on: return the new id, or the INSERT
\* raises psycopg2's UniqueViolation, which nothing catches
WriterInsertNode(w) ==
    /\ wpc[w] = "insert_node"
    /\ LET node == wargs[w].node IN
       IF unique_node_name_type(nodes, node.name, node.type)
       THEN /\ nodes' = insert_node(nodes, node_ids + 1, node, WriterPaper(w))
            /\ node_ids' = node_ids + 1
            /\ wret' = [wret EXCEPT ![w] = node_ids + 1]
            /\ wpc' = [wpc EXCEPT ![w] = "idle"]
       ELSE /\ wpc' = [wpc EXCEPT ![w] = "raised"]
            /\ UNCHANGED <<nodes, node_ids, wret>>
    /\ UNCHANGED <<pc, normVars, pdfVars, edges, edge_ids, clientVars, wargs, wcalls, pipeVars>>

\* create_edge up to fetchone(): return if the edge exists, or go on to INSERT
WriterSelectEdge(w) ==
    /\ wpc[w] = "idle"
    /\ wcalls[w] < MaxRaceCalls
    /\ \E source_id \in NodeIdsOf(nodes), target_id \in NodeIdsOf(nodes),
          edge \in RaceEdges :
         /\ wargs' = [wargs EXCEPT ![w] = [op |-> "edge", source_id |-> source_id,
                                           target_id |-> target_id, edge |-> edge]]
         /\ IF select_edge(edges, source_id, target_id, edge)
            THEN wpc' = wpc
            ELSE wpc' = [wpc EXCEPT ![w] = "insert_edge"]
    /\ wcalls' = [wcalls EXCEPT ![w] = @ + 1]
    /\ UNCHANGED <<pc, normVars, pdfVars, dbVars, clientVars, wret, pipeVars>>

\* create_edge from the INSERT on: the row goes in, or the INSERT raises
\* ForeignKeyViolation
WriterInsertEdge(w) ==
    /\ wpc[w] = "insert_edge"
    /\ LET a == wargs[w] IN
       IF references_nodes(nodes, a.source_id, a.target_id)
       THEN /\ edges' = insert_edge(edges, a.source_id, a.target_id, a.edge)
            /\ edge_ids' = edge_ids + 1
            /\ wpc' = [wpc EXCEPT ![w] = "idle"]
       ELSE /\ wpc' = [wpc EXCEPT ![w] = "raised"]
            /\ UNCHANGED <<edges, edge_ids>>
    /\ UNCHANGED <<pc, normVars, pdfVars, nodes, node_ids, clientVars, wargs, wret, wcalls, pipeVars>>

NextRace ==
    \E w \in Writers :
        \/ WriterSelectNode(w)
        \/ WriterInsertNode(w)
        \/ WriterSelectEdge(w)
        \/ WriterInsertEdge(w)

SpecRace == InitRace /\ [][NextRace]_vars

\* Both writers have finished a call of operation op with the same arguments.
BothFinished(op) ==
    /\ \A w \in Writers : wpc[w] = "idle" /\ wargs[w].op = op
    /\ wargs[1] = wargs[2]

\* C3: when two writers have run create_edge concurrently with the same
\* (source_id, target_id, relation type), the store holds exactly one edge
\* for that triple.
C3_RaceOneEdge ==
    BothFinished("edge") =>
        EdgesWith(edges, wargs[1].source_id, wargs[1].target_id,
                  wargs[1].edge.relation) = 1

\* C4: under every interleaving of the writers' lookups and inserts, the
\* store never holds two nodes with the same (name, type).
C4_RaceNoDuplicateNode ==
    \A n1 \in nodes, n2 \in nodes :
        (n1.name = n2.name /\ n1.type = n2.type) => n1 = n2

\* Both writers looked the same (name, type) up before either inserted it:
\* one insert went in, the other was refused by the constraint.
C4_Witness ==
    /\ wargs[1].op = "node"
    /\ wargs[2] = wargs[1]
    /\ wpc[1] = "idle"
    /\ wret[1] # None
    /\ wpc[2] = "raised"
    /\ wcalls = [w \in Writers |-> 1]
    /\ Cardinality(NodesWith(nodes, wargs[1].node.name, wargs[1].node.type)) = 1

\* ------------------------------------------------------------------------
\* Spec: main, one pipeline process. A document is taken up, read by
\* process_pdf and given to the extraction; then one step per iteration of
\* the node loop and of the edge loop. What the collaborators return (the
\* text of a document, the candidate nodes, each candidate edge) is drawn
\* when the pipeline reads it.
\* ------------------------------------------------------------------------
PipeNames == {<<"a">>, <<"A">>, <<"a", "_", "a">>}
EdgeNames == {<<"a">>, <<"A">>, <<"a", "-", "a">>}
PipeNodes ==
    [name : PipeNames, type : {"Method"}, description : {"d1"}]
        \cup [name : {<<"a">>}, type : {"Concept"}, description : {"d1"}]
PipeEdges == [source : EdgeNames, target : EdgeNames, relation : {"USES"},
              context : {"c1"}]
NodeLists == UNION {[1..k -> PipeNodes] : k \in 0..MaxNodes}

\* texts process_pdf reads: too short, too short once cleaned, usable, and
\* over the limit
DocTexts ==
    {<<Run("x", 300)>>,
     <<Run("x", 499), Run("NUL", 499)>>,
     <<Run("x", 500)>>,
     <<Run("x", 35000), Run("y", 5001)>>}

\* paper_title of the doc-th document (main.py 202)
Title(d) == <<"paper", d>>

\* node_map.get(k) (main.py 234-235)
get(m, k) == IF k \in DOMAIN m THEN m[k] ELSE None

\* node_map keeping the id it already has for k
put_if_absent(m, k, id) ==
    [x \in DOMAIN m \cup {k} |-> IF x \in DOMAIN m THEN m[x] ELSE id]

\* node_map[k] = id (main.py 226)
put(m, k, id) == [x \in DOMAIN m \cup {k} |-> IF x = k THEN id ELSE m[x]]

\* the key of main.py 225 taken from the name as it is
map_key_raw(node) == node.name

\* norm_name = normalize_key(node.name) (main.py 225)
map_key(node) == normalize_key(Str(node.name))

\* source_key, target_key (main.py 231-232)
source_key(edge) == normalize_key(Str(edge.source))
target_key(edge) == normalize_key(Str(edge.target))

\* if source_id and target_id (main.py 237)
resolved(source_id, target_id) == source_id # None /\ target_id # None

\* The candidate edge names a node that is no candidate node of the document:
\* its normalized source or target is the normalized name of none of them.
NamesAbsentNode(edge, candidates) ==
    LET keys == {normalize_key(Str(candidates[i].name)) : i \in 1..Len(candidates)} IN
    \/ normalize_key(Str(edge.source)) \notin keys
    \/ normalize_key(Str(edge.target)) \notin keys

Init ==
    /\ pc = "next_doc"
    /\ NormIdle
    /\ PdfIdle
    /\ DbIdle
    /\ ClientIdle
    /\ RaceIdle
    /\ n_docs \in 1..MaxDocs
    /\ doc = 0
    /\ invoked = FALSE
    /\ outcome = "none"
    /\ graph_nodes = <<>>
    /\ node_i = 0
    /\ n_edges = 0
    /\ edge_i = 0
    /\ node_map = <<>>
    /\ skipped_edges = 0
    /\ dropped = 0
    /\ passed = 0
    /\ doc_writes = 0
    /\ resets = 0
    /\ RerunIdle

\* The next document is taken up and process_pdf reads txt (main.py 199-204).
TakeUp(txt) ==
    /\ pc = "next_doc"
    /\ doc < n_docs
    /\ doc' = doc + 1
    /\ full_text' = txt
    /\ cleaned' = cleanup(txt)
    /\ raw_text' = process_pdf(txt)
    /\ doc_writes' = 0

\* Where the driver stands once the node loop is over, and once the edge
\* loop is over.
AfterNodeLoop(ne) == IF ne > 0 THEN "edges" ELSE "next_doc"
OutcomeAt(p) == IF p = "next_doc" THEN "processed" ELSE "processing"

\* main.py 205-207: process_pdf returned "", the document is skipped
SkipUnreadableOn(txt) ==
    /\ TakeUp(txt)
    /\ process_pdf(txt) = <<>>
    /\ invoked' = FALSE
    /\ prompt_text' = <<>>
    /\ outcome' = "unreadable"
    /\ UNCHANGED <<pc, normVars, dbVars, clientVars, raceVars, n_docs, loopVars, resets,
                   rerunVars>>

SkipUnreadable == \E txt \in DocTexts : SkipUnreadableOn(txt)

\* main.py 210-215: extract_graph raises, the document is skipped
ExtractFailsOn(txt) ==
    /\ TakeUp(txt)
    /\ process_pdf(txt) # <<>>
    /\ invoked' = TRUE
    /\ prompt_text' = excerpt(process_pdf(txt))
    /\ outcome' = "extract_error"
    /\ UNCHANGED <<pc, normVars, dbVars, clientVars, raceVars, n_docs, loopVars, resets,
                   rerunVars>>

ExtractFails == \E txt \in DocTexts : ExtractFailsOn(txt)

\* extract_graph returns graph_data and node_map is kept from the document
\* before
ExtractKeepingMap(txt, ns, ne) ==
    /\ TakeUp(txt)
    /\ process_pdf(txt) # <<>>
    /\ invoked' = TRUE
    /\ prompt_text' = excerpt(process_pdf(txt))
    /\ graph_nodes' = ns
    /\ n_edges' = ne
    /\ IF ns # <<>>
       THEN /\ pc' = "nodes"
            /\ UNCHANGED skipped_edges
       ELSE /\ pc' = AfterNodeLoop(ne)
            /\ skipped_edges' = 0
    /\ outcome' = OutcomeAt(pc')
    /\ node_i' = 0
    /\ edge_i' = 0
    /\ dropped' = 0
    /\ passed' = 0
    /\ UNCHANGED <<normVars, dbVars, clientVars, raceVars, n_docs, node_map, resets,
                   rerunVars>>

\* main.py 210-218: extract_graph returns graph_data; node_map = {}
ExtractOn(txt, ns, ne) ==
    /\ TakeUp(txt)
    /\ process_pdf(txt) # <<>>
    /\ invoked' = TRUE
    /\ prompt_text' = excerpt(process_pdf(txt))
    /\ graph_nodes' = ns
    /\ n_edges' = ne
    /\ IF ns # <<>>
       THEN /\ pc' = "nodes"
            /\ UNCHANGED skipped_edges
       ELSE /\ pc' = AfterNodeLoop(ne)
            /\ skipped_edges' = 0
    /\ outcome' = OutcomeAt(pc')
    /\ node_map' = <<>>
    /\ node_i' = 0
    /\ edge_i' = 0
    /\ dropped' = 0
    /\ passed' = 0
    /\ UNCHANGED <<normVars, dbVars, clientVars, raceVars, n_docs, resets, rerunVars>>

Extract ==
    \E txt \in DocTexts, ns \in NodeLists, ne \in 0..MaxEdges : ExtractOn(txt, ns, ne)

\* The node loop left for the edge loop after its first iteration: nodes and
\* edges in one pass.
NodeStepSinglePass ==
    /\ pc = "nodes"
    /\ LET node == graph_nodes[node_i + 1]
           r == get_or_create_node(nodes, node_ids, node, Title(doc)) IN
       /\ nodes' = r.nodes
       /\ node_ids' = r.node_ids
       /\ node_map' = put(node_map, map_key(node), r.id)
       /\ node_i' = node_i + 1
       /\ doc_writes' = IF r.existed THEN doc_writes ELSE doc_writes + 1
       /\ pc' = AfterNodeLoop(n_edges)
       /\ skipped_edges' = 0
       /\ outcome' = OutcomeAt(pc')
    /\ UNCHANGED <<normVars, pdfVars, edges, edge_ids, clientVars, raceVars, n_docs,
                   doc, invoked, graph_nodes, n_edges, edge_i, dropped, passed, resets,
                   rerunVars>>

\* main.py 219-229: one iteration of the node loop; skipped_edges = 0 after
\* the last one. An exception out of get_or_create_node ends the process.
NodeStep ==
    /\ pc = "nodes"
    /\ LET node == graph_nodes[node_i + 1]
           r == get_or_create_node(nodes, node_ids, node, Title(doc)) IN
       IF r.raised
       THEN /\ pc' = "crashed"
            /\ outcome' = "crashed"
            /\ UNCHANGED <<nodes, node_ids, node_map, node_i, skipped_edges, doc_writes>>
       ELSE /\ nodes' = r.nodes
            /\ node_ids' = r.node_ids
            /\ node_map' = put(node_map, map_key(node), r.id)
            /\ node_i' = node_i + 1
            /\ doc_writes' = IF r.existed THEN doc_writes ELSE doc_writes + 1
            /\ IF node_i + 1 < Len(graph_nodes)
               THEN /\ pc' = "nodes"
                    /\ UNCHANGED skipped_edges
               ELSE /\ pc' = AfterNodeLoop(n_edges)
                    /\ skipped_edges' = 0
            /\ outcome' = OutcomeAt(pc')
    /\ UNCHANGED <<normVars, pdfVars, edges, edge_ids, clientVars, raceVars, n_docs,
                   doc, invoked, graph_nodes, n_edges, edge_i, dropped, passed, resets,
                   rerunVars>>

\* The edge loop moves on to its next iteration, or the document is done.
EdgeLoopOn(edge) ==
    /\ pc = "edges"
    /\ edge_i' = edge_i + 1
    /\ dropped' = IF NamesAbsentNode(edge, graph_nodes) THEN dropped + 1 ELSE dropped
    /\ UNCHANGED <<normVars, pdfVars, nodes, node_ids, clientVars, raceVars, n_docs,
                   doc, invoked, graph_nodes, node_i, n_edges, node_map, resets,
                   rerunVars>>

\* main.py 230-238: an iteration of the edge loop whose names both resolve.
\* An exception out of create_edge ends the process.
CreateEdgeStepOn(edge) ==
    LET source_id == get(node_map, source_key(edge))
        target_id == get(node_map, target_key(edge))
        r == create_edge(nodes, edges, edge_ids, source_id, target_id, edge) IN
    /\ EdgeLoopOn(edge)
    /\ resolved(source_id, target_id)
    /\ passed' = passed + 1
    /\ UNCHANGED skipped_edges
    /\ IF r.raised
       THEN /\ pc' = "crashed"
            /\ outcome' = "crashed"
            /\ UNCHANGED <<edges, edge_ids, doc_writes>>
       ELSE /\ edges' = r.edges
            /\ edge_ids' = r.edge_ids
            /\ doc_writes' = IF r.existed THEN doc_writes ELSE doc_writes + 1
            /\ pc' = IF edge_i + 1 < n_edges THEN "edges" ELSE "next_doc"
            /\ outcome' = OutcomeAt(pc')

CreateEdgeStep == \E edge \in PipeEdges : CreateEdgeStepOn(edge)

\* main.py 239-241: an iteration of the edge loop with a name that does not
\* resolve: the edge is counted and left out.
SkipEdgeStepOn(edge) ==
    LET source_id == get(node_map, source_key(edge))
        target_id == get(node_map, target_key(edge)) IN
    /\ EdgeLoopOn(edge)
    /\ ~resolved(source_id, target_id)
    /\ skipped_edges' = skipped_edges + 1
    /\ pc' = IF edge_i + 1 < n_edges THEN "edges" ELSE "next_doc"
    /\ outcome' = OutcomeAt(pc')
    /\ UNCHANGED <<edges, edge_ids, doc_writes, passed>>

SkipEdgeStep == \E edge \in PipeEdges : SkipEdgeStepOn(edge)

\* main.py 248: the for loop is over
Complete ==
    /\ pc = "next_doc"
    /\ doc = n_docs
    /\ pc' = "complete"
    /\ UNCHANGED <<normVars, pdfVars, dbVars, clientVars, raceVars, pipeVars>>

Next ==
    \/ SkipUnreadable
    \/ ExtractFails
    \/ Extract
    \/ NodeStep
    \/ CreateEdgeStep
    \/ SkipEdgeStep
    \/ Complete

Spec == Init /\ [][Next]_vars

\* ------------------------------------------------------------------------
\* SpecReset: the pipeline, and reset_database run from another process
\* ------------------------------------------------------------------------
\* reset_db.py 15-46: both tables dropped and created again, empty; ids
\* handed out before are never handed out again
Reset ==
    /\ resets < MaxResets
    /\ pc \in {"next_doc", "nodes", "edges"}
    /\ nodes' = {}
    /\ edges' = EmptyBag
    /\ resets' = resets + 1
    /\ UNCHANGED <<pc, normVars, pdfVars, node_ids, edge_ids, clientVars, raceVars,
                   n_docs, doc, invoked, outcome, loopVars, doc_writes, rerunVars>>

NextReset == Next \/ Reset

SpecReset == Init /\ [][NextReset]_vars

\* C5: no dangling edge is ever stored: the source_id and the target_id of
\* every stored edge are ids of stored nodes, also when reset_database has
\* emptied the tables under a running pipeline.
C5_NoDanglingEdge ==
    \A e \in BagToSet(edges) :
        /\ e.source_id \in NodeIdsOf(nodes)
        /\ e.target_id \in NodeIdsOf(nodes)

\* The tables were reset while a document was being processed; an edge of
\* nodes created after the reset was stored, and an edge to a node created
\* before it was refused, ending the process.
C5_Witness ==
    /\ resets = 1
    /\ pc = "crashed"
    /\ BagCardinality(edges) = 1
    /\ passed = 2

\* C6: a candidate edge is dropped exactly when its normalized source or
\* target is the normalized name of no candidate node of the document: the
\* skipped-edge count is the number of such edges, every other edge iterated
\* was given to create_edge, and once the document is processed every
\* candidate node is stored and every candidate edge was iterated; the
\* process does not abort.
C6_DroppedIffAbsent ==
    /\ pc # "crashed"
    /\ pc \in {"edges", "next_doc", "complete"} =>
         /\ skipped_edges = dropped
         /\ passed = edge_i - dropped
    /\ outcome = "processed" =>
         /\ node_i = Len(graph_nodes)
         /\ edge_i = n_edges
         /\ \A i \in 1..Len(graph_nodes) :
              NodesWith(nodes, graph_nodes[i].name, graph_nodes[i].type) # {}

\* A processed document with two candidate nodes and two candidate edges, one
\* of which named an absent node: one edge created, skipped count 1.
C6_Witness ==
    /\ outcome = "processed"
    /\ Len(graph_nodes) = 2
    /\ Cardinality(nodes) = 2
    /\ n_edges = 2
    /\ skipped_edges = 1
    /\ passed = 1
    /\ BagCardinality(edges) = 1

\* C10: a document whose text is shorter than 500 characters after cleanup
\* is marked unreadable: extract_graph is not invoked for it and no row is
\* written for it.
C10_ShortTextSkipped ==
    (doc > 0 /\ len(cleanup(full_text)) < 500) =>
        /\ outcome = "unreadable"
        /\ raw_text = <<>>
        /\ ~invoked
        /\ doc_writes = 0
        /\ pc \in {"next_doc", "complete"}

\* The second document is 998 characters long as read and 499 once its null
\* bytes are removed; it is skipped, the store keeping the first one's rows.
C10_Witness ==
    /\ doc = 2
    /\ len(full_text) >= 500
    /\ len(cleaned) < 500
    /\ outcome = "unreadable"
    /\ ~invoked
    /\ nodes # {}

\* ------------------------------------------------------------------------
\* SpecCorpus: the pipeline over a corpus in which a file may be one that
\* PdfReader cannot open. FairCorpus adds that the process, while it can
\* take a step, takes one.
\* ------------------------------------------------------------------------
\* main.py 204, 142: PdfReader(file_path) raises for a file it cannot parse;
\* the call stands outside every try, so the exception leaves process_pdf and
\* main, and the process ends before the document's text is read.
OpenFails ==
    /\ pc = "next_doc"
    /\ doc < n_docs
    /\ doc' = doc + 1
    /\ doc_writes' = 0
    /\ invoked' = FALSE
    /\ pc' = "crashed"
    /\ outcome' = "crashed"
    /\ UNCHANGED <<normVars, pdfVars, dbVars, clientVars, raceVars, n_docs, loopVars, resets,
                   rerunVars>>

NextCorpus == Next \/ OpenFails

SpecCorpus == Init /\ [][NextCorpus]_vars

FairCorpus == SpecCorpus /\ WF_vars(NextCorpus)

\* C11: a failure of one document (it cannot be read, its text is unusable,
\* the extraction raises) does not abort the run: every document of the
\* corpus is taken up and the run reaches its completion signal.
C11_RunCompletes == <>(pc = "complete" /\ doc = n_docs)

\* ------------------------------------------------------------------------
\* Two documents that name one entity in two letter cases
\* ------------------------------------------------------------------------
\* A first document's candidate node named name1 was stored for it, and the
\* document just processed is a later one with a candidate node named name2,
\* both of type Method.
YieldedInTurn(name1, name2) ==
    /\ doc > 1
    /\ outcome = "processed"
    /\ \E r \in nodes :
         r.name = name1 /\ r.type = "Method" /\ r.source_paper = Title(1)
    /\ \E i \in 1..Len(graph_nodes) :
         graph_nodes[i].name = name2 /\ graph_nodes[i].type = "Method"

\* The stored Method nodes named "A" or "a" (as "NeRF" and "nerf").
MethodNodesNamed(names) == {r \in nodes : r.type = "Method" /\ r.name \in names}

\* C12 as claimed: when one document yields a Method node named "A" and
\* another one named "a", the store then holds exactly one Method node for
\* the two names.
C12_OneMethodNode ==
    (YieldedInTurn(<<"A">>, <<"a">>) \/ YieldedInTurn(<<"a">>, <<"A">>)) =>
        Cardinality(MethodNodesNamed({<<"A">>, <<"a">>})) = 1

\* C12 as amended: the store holds exactly one node for each exact display
\* name and type, the one written first; when one document yields a Method
\* node named "A" and another one named "a", it holds two Method nodes, one
\* for each spelling, the first keeping the label of the first document.
C12_OneNodePerExactName ==
    /\ \A r1 \in nodes, r2 \in nodes :
         (r1.name = r2.name /\ r1.type = r2.type) => r1 = r2
    /\ \A name1 \in {<<"A">>, <<"a">>}, name2 \in {<<"A">>, <<"a">>} :
         (name1 # name2 /\ YieldedInTurn(name1, name2)) =>
            /\ Cardinality(MethodNodesNamed({name1, name2})) = 2
            /\ \A r \in MethodNodesNamed({name1}) : r.source_paper = Title(1)

\* The first document yielded "A", the second "a": two Method nodes.
C12_Witness ==
    /\ YieldedInTurn(<<"A">>, <<"a">>)
    /\ doc = 2
    /\ Len(graph_nodes) = 1
    /\ Cardinality(nodes) = 2
    /\ \E r \in nodes : r.name = <<"a">> /\ r.source_paper = Title(2)

\* ------------------------------------------------------------------------
\* First write wins (SpecStore)
\* ------------------------------------------------------------------------
\* C13: a get_or_create_node call for a (name, type) that is stored returns
\* the stored id and leaves every node row as it was (id, name, type,
\* description, source_paper), and a create_edge call for a stored (source_id,
\* target_id, relation type) leaves every edge row as it was (citation
\* context), whatever description, paper or context the call carries.
C13_FirstWriteWins ==
    [][/\ (/\ last_call'.op = "node"
           /\ NodesWith(nodes, last_call'.name, last_call'.type) # {})
          => /\ nodes' = nodes
             /\ \E r \in nodes : /\ r.name = last_call'.name
                                 /\ r.type = last_call'.type
                                 /\ r.id = last_call'.ret
       /\ (/\ last_call'.op = "edge"
           /\ EdgesWith(edges, last_call'.source_id, last_call'.target_id,
                        last_call'.relation) > 0)
          => edges' = edges
      ]_vars

\* A node was stored with one description and paper and asked for again with
\* another description and another paper: the row is the first call's.
C13_Witness ==
    /\ prev_call.op = "node"
    /\ last_call.op = "node"
    /\ last_call.existed
    /\ last_call.ret = prev_call.ret
    /\ \E r \in nodes : /\ r.id = last_call.ret
                        /\ r.description = prev_call.description
                        /\ r.description # last_call.description
                        /\ r.source_paper # last_call.paper_source

\* ------------------------------------------------------------------------
\* Candidate nodes of one document with one key
\* ------------------------------------------------------------------------
\* The candidate nodes the node loop has been through that normalize to k,
\* by their place in the list, and the id the store has for the last of them.
PlacesOf(k) ==
    {i \in 1..node_i : normalize_key(Str(graph_nodes[i].name)) = k}
LastPlaceOf(k) == CHOOSE i \in PlacesOf(k) : \A j \in PlacesOf(k) : j <= i
StoredId(node) == (CHOOSE r \in NodesWith(nodes, node.name, node.type) : TRUE).id
LastId(k) == StoredId(graph_nodes[LastPlaceOf(k)])

\* The resolution map holds, for each key of a candidate node gone through,
\* the id of the last candidate with that key, and each candidate gone
\* through is stored.
LastWriteWinsMap ==
    /\ DOMAIN node_map = {k \in {normalize_key(Str(n)) : n \in PipeNames} :
                            PlacesOf(k) # {}}
    /\ \A k \in DOMAIN node_map : node_map[k] = LastId(k)
    /\ \A i \in 1..node_i :
         Cardinality(NodesWith(nodes, graph_nodes[i].name, graph_nodes[i].type)) = 1

\* A create_edge call of the edge loop is for a candidate edge both of whose
\* names are keys of candidate nodes, and the edge is stored between the ids
\* of the last candidates with those keys.
AttachedToLast ==
    passed' = passed + 1 =>
        \E edge \in PipeEdges :
            /\ ~NamesAbsentNode(edge, graph_nodes)
            /\ LET sid == LastId(normalize_key(Str(edge.source)))
                   tid == LastId(normalize_key(Str(edge.target))) IN
               /\ edges' \in {edges, insert_edge(edges, sid, tid, edge)}
               /\ EdgesWith(edges', sid, tid, edge.relation) = 1

\* C14: when several candidate nodes of a document normalize to one key,
\* each of them is stored, and the candidate edges of the document whose
\* endpoint normalizes to that key are attached to the id of the last such
\* candidate in list order.
C14_LastWriteWins == []LastWriteWinsMap /\ [][AttachedToLast]_vars

\* Two candidate nodes "a" and "A" of the first document, both stored; the
\* one candidate edge went between the id of the second and itself.
C14_Witness ==
    /\ doc = 1
    /\ outcome = "processed"
    /\ Len(graph_nodes) = 2
    /\ graph_nodes[1].name # graph_nodes[2].name
    /\ map_key(graph_nodes[1]) = map_key(graph_nodes[2])
    /\ Cardinality(nodes) = 2
    /\ passed = 1
    /\ BagCardinality(edges) = 1
    /\ \A e \in BagToSet(edges) :
         /\ e.source_id = StoredId(graph_nodes[2])
         /\ e.target_id = StoredId(graph_nodes[2])
         /\ e.source_id # StoredId(graph_nodes[1])

\* ------------------------------------------------------------------------
\* Two passes per document
\* ------------------------------------------------------------------------
\* C15: the edge loop of a document starts only when get_or_create_node has
\* been called for the last candidate node of the document, and the keys it
\* can resolve are then the keys of all the candidate nodes, a set that does
\* not depend on the order of the list.
C15_TwoPass ==
    /\ (pc = "edges" \/ edge_i > 0 \/ passed > 0) => node_i = Len(graph_nodes)
    /\ pc = "edges" =>
         DOMAIN node_map =
            {normalize_key(Str(graph_nodes[i].name)) : i \in 1..Len(graph_nodes)}

\* In the edge loop of a document with two candidate nodes of different keys:
\* the first candidate edge went from the second node of the list to the
\* first.
C15_Witness ==
    /\ pc = "edges"
    /\ edge_i = 1
    /\ passed = 1
    /\ Len(graph_nodes) = 2
    /\ map_key(graph_nodes[1]) # map_key(graph_nodes[2])
    /\ \E e \in BagToSet(edges) :
         /\ e.source_id = StoredId(graph_nodes[2])
         /\ e.target_id = StoredId(graph_nodes[1])

\* ------------------------------------------------------------------------
\* The resolution map belongs to one document
\* ------------------------------------------------------------------------
\* The keys of the candidate nodes of the document being processed.
KeysOfDocument ==
    {normalize_key(Str(graph_nodes[i].name)) : i \in 1..Len(graph_nodes)}

\* C16: node_map holds keys of the candidate nodes of the document being
\* processed only, so a candidate edge with a name that only an earlier
\* document defined is counted as skipped and stores nothing, although the
\* node is in the store; an edge that is stored joins nodes of candidates of
\* this document.
C16_MapPerDocument ==
    /\ [](DOMAIN node_map \subseteq KeysOfDocument)
    /\ [][/\ dropped' = dropped + 1 =>
               /\ skipped_edges' = skipped_edges + 1
               /\ passed' = passed
               /\ edges' = edges
          /\ passed' = passed + 1 =>
               \A e \in BagToSet(edges') :
                   e \notin BagToSet(edges) =>
                       \E i, j \in 1..Len(graph_nodes) :
                           /\ e.source_id = StoredId(graph_nodes[i])
                           /\ e.target_id = StoredId(graph_nodes[j])
         ]_vars

\* The first document stored the node "a"; the second has the one candidate
\* node "a_a" and one candidate edge, which named a node of key "a": it was
\* skipped and counted.
C16_Witness ==
    /\ doc = 2
    /\ outcome = "processed"
    /\ KeysOfDocument = {<<"a", " ", "a">>}
    /\ \E r \in nodes : /\ normalize_key(Str(r.name)) = <<"a">>
                        /\ r.source_paper = Title(1)
    /\ n_edges = 1
    /\ dropped = 1
    /\ skipped_edges = 1
    /\ edges = EmptyBag

\* ------------------------------------------------------------------------
\* get_or_create_node under a race (SpecRace)
\* ------------------------------------------------------------------------
\* C17: when both writers have called get_or_create_node once, with the same
\* (name, type) and on a store that did not hold it, both calls have returned,
\* neither raised, and both returned the id of the one stored node.
C17_RaceBothReturn ==
    (/\ wcalls = [w \in Writers |-> 1]
     /\ wargs[1].op = "node"
     /\ wargs[2] = wargs[1]
     /\ \A w \in Writers : wpc[w] # "insert_node")
    => \A w \in Writers :
          /\ wpc[w] = "idle"
          /\ \E r \in nodes : /\ r.name = wargs[w].node.name
                              /\ r.type = wargs[w].node.type
                              /\ r.id = wret[w]

\* ------------------------------------------------------------------------
\* SpecRerun: main run more than once over one corpus, extract_graph giving
\* the same result for a document every time. A first run goes through the
\* corpus. Then either main is run again over the same tables, or the tables
\* are reset, main is run and stopped somewhere, and main is run again.
\* ------------------------------------------------------------------------
MaxRerunEdges == 1  \* most candidate edges of a document of the corpus

RerunNodes == [name : PipeNames, type : {"Method"}, description : {"d1"}]
RerunEdges == [source : {<<"A">>, <<"a", "-", "a">>}, target : {<<"a">>},
               relation : {"USES"}, context : {"c1"}]
RerunNodeLists == UNION {[1..k -> RerunNodes] : k \in 0..MaxNodes}
RerunEdgeLists == UNION {[1..k -> RerunEdges] : k \in 0..MaxRerunEdges}

\* A document: the text process_pdf reads, whether extract_graph raises, and
\* the graph_data it returns otherwise.
RerunOutputs ==
    {[text |-> <<Run("x", 300)>>, raises |-> FALSE, nodes |-> <<>>, edges |-> <<>>],
     [text |-> <<Run("x", 500)>>, raises |-> TRUE, nodes |-> <<>>, edges |-> <<>>]}
    \cup [text : {<<Run("x", 500)>>}, raises : {FALSE},
          nodes : RerunNodeLists, edges : RerunEdgeLists]

Corpora == UNION {[1..n -> RerunOutputs] : n \in 1..MaxDocs}

InitRerun ==
    /\ pc = "next_doc"
    /\ NormIdle
    /\ PdfIdle
    /\ DbIdle
    /\ ClientIdle
    /\ RaceIdle
    /\ corpus \in Corpora
    /\ n_docs = Len(corpus)
    /\ phase = "first"
    /\ first_run = [nodes |-> {}, edges |-> EmptyBag]
    /\ stopped_at = [pc |-> "none", doc |-> 0, doc_writes |-> 0]
    /\ doc = 0
    /\ invoked = FALSE
    /\ outcome = "none"
    /\ graph_nodes = <<>>
    /\ node_i = 0
    /\ n_edges = 0
    /\ edge_i = 0
    /\ node_map = <<>>
    /\ skipped_edges = 0
    /\ dropped = 0
    /\ passed = 0
    /\ doc_writes = 0
    /\ resets = 0

\* The steps of main, with the documents of the corpus
ReplayUnreadable ==
    /\ doc < n_docs
    /\ SkipUnreadableOn(corpus[doc + 1].text)

ReplayExtractFails ==
    /\ doc < n_docs
    /\ corpus[doc + 1].raises
    /\ ExtractFailsOn(corpus[doc + 1].text)

ReplayExtract ==
    /\ doc < n_docs
    /\ ~corpus[doc + 1].raises
    /\ ExtractOn(corpus[doc + 1].text, corpus[doc + 1].nodes,
                 Len(corpus[doc + 1].edges))

ReplayCreateEdge ==
    /\ pc = "edges"
    /\ CreateEdgeStepOn(corpus[doc].edges[edge_i + 1])

ReplaySkipEdge ==
    /\ pc = "edges"
    /\ SkipEdgeStepOn(corpus[doc].edges[edge_i + 1])

\* A new process enters main (main.py 250-251, 180-197): nothing of the
\* process before is left but the tables.
StartMain ==
    /\ pc' = "next_doc"
    /\ doc' = 0
    /\ invoked' = FALSE
    /\ outcome' = "none"
    /\ full_text' = <<>>
    /\ cleaned' = <<>>
    /\ raw_text' = <<>>
    /\ prompt_text' = <<>>
    /\ graph_nodes' = <<>>
    /\ node_i' = 0
    /\ n_edges' = 0
    /\ edge_i' = 0
    /\ node_map' = <<>>
    /\ skipped_edges' = 0
    /\ dropped' = 0
    /\ passed' = 0
    /\ doc_writes' = 0
    /\ UNCHANGED <<normVars, clientVars, raceVars, n_docs, corpus>>

\* The first run is over and main is run again over the same tables.
RunAgain ==
    /\ phase = "first"
    /\ pc = "complete"
    /\ phase' = "again"
    /\ first_run' = [nodes |-> nodes, edges |-> edges]
    /\ StartMain
    /\ UNCHANGED <<dbVars, resets, stopped_at>>

\* The first run is over; reset_database empties the tables (reset_db.py
\* 15-46) and main is run over the corpus from the start.
StartOver ==
    /\ phase = "first"
    /\ pc = "complete"
    /\ phase' = "partial"
    /\ first_run' = [nodes |-> nodes, edges |-> edges]
    /\ nodes' = {}
    /\ edges' = EmptyBag
    /\ resets' = resets + 1
    /\ StartMain
    /\ UNCHANGED <<node_ids, edge_ids, stopped_at>>

\* The process is stopped, between two documents or between two statements
\* of one; every statement run so far is committed (main.py 48). main is
\* then run again.
StopAndRunAgain ==
    /\ phase = "partial"
    /\ pc \in {"next_doc", "nodes", "edges"}
    /\ phase' = "recovery"
    /\ stopped_at' = [pc |-> pc, doc |-> doc, doc_writes |-> doc_writes]
    /\ StartMain
    /\ UNCHANGED <<dbVars, resets, first_run>>

NextRerun ==
    \/ ReplayUnreadable
    \/ ReplayExtractFails
    \/ ReplayExtract
    \/ NodeStep
    \/ ReplayCreateEdge
    \/ ReplaySkipEdge
    \/ Complete
    \/ RunAgain
    \/ StartOver
    \/ StopAndRunAgain

SpecRerun == InitRerun /\ [][NextRerun]_vars

\* C18: while and after main is run a second time over the same corpus with
\* the same extraction results, the tables hold the rows the first run left:
\* the same nodes (id, name, type, description, source_paper) and the same
\* edges (source_id, target_id, type, citation_context), no row more.
C18_RerunNoOp ==
    phase = "again" =>
        /\ nodes = first_run.nodes
        /\ edges = first_run.edges
        /\ pc # "crashed"

\* The second run over a corpus of two documents is complete; the first run
\* had stored two nodes and an edge, and the second run went through the
\* candidate nodes and the candidate edge of the last document again.
C18_Witness ==
    /\ phase = "again"
    /\ pc = "complete"
    /\ n_docs = 2
    /\ Cardinality(first_run.nodes) = 2
    /\ BagCardinality(first_run.edges) = 1
    /\ node_i = 2
    /\ passed = 1

\* A stored graph without its ids: the (name, type) of its nodes, and its
\* edges as (name, type) of the source, (name, type) of the target, relation.
NameAndType(ns, id) ==
    LET r == CHOOSE r \in ns : r.id = id IN <<r.name, r.type>>
NodePairs(ns) == {<<r.name, r.type>> : r \in ns}
EdgeTriples(ns, es) ==
    {<<NameAndType(ns, e.source_id), NameAndType(ns, e.target_id), e.type>> :
        e \in BagToSet(es)}

\* C19: a run over empty tables was stopped somewhere and main was run again
\* to its end with the same extraction results: the tables then hold the
\* (name, type) nodes and the (source, target, relation) edges that one
\* uninterrupted run over empty tables leaves, each of them once.
C19_RecoversFromPartialRun ==
    (phase = "recovery" /\ pc = "complete") =>
        /\ NodePairs(nodes) = NodePairs(first_run.nodes)
        /\ EdgeTriples(nodes, edges) = EdgeTriples(first_run.nodes, first_run.edges)
        /\ Cardinality(nodes) = Cardinality(NodePairs(nodes))
        /\ BagCardinality(edges) = Cardinality(EdgeTriples(nodes, edges))

\* The run was stopped in the node loop of the second document, after the
\* first of its two nodes was written and with the first document's node and
\* edge stored; the run after it is complete.
C19_Witness ==
    /\ phase = "recovery"
    /\ pc = "complete"
    /\ stopped_at = [pc |-> "nodes", doc |-> 2, doc_writes |-> 1]
    /\ Cardinality(nodes) = 3
    /\ BagCardinality(edges) = 2

\* ------------------------------------------------------------------------
\* The text in the prompt (SpecTrunc)
\* ------------------------------------------------------------------------
\* C20: for a document over the limit, the text in the prompt is all of what
\* process_pdf returned: the first 35,000 characters, the marker, and the
\* whole of the last 5,000 characters of the cleaned text.
C20_PromptHoldsWholeOutput ==
    (pc = "prompt_built" /\ len(cleaned) > 40000) =>
        /\ prompt_text = raw_text
        /\ slice_to(prompt_text, 35000) = slice_to(cleaned, 35000)
        /\ slice_last(prompt_text, 5000) = slice_last(cleaned, 5000)

====
